---- MODULE Spec2Model ----
(***************************************************************************)
(* Turn-taking core of the Twilio <-> OpenAI Realtime <-> ElevenLabs       *)
(* bridge.  The repository holds four variants of the same per-call        *)
(* handler closure:                                                        *)
(*   "A"  src/index.js lines 1-756      (server-created responses, TTS)    *)
(*   "B"  src/index.js lines 757-1125   (explicit response.create, TTS)    *)
(*   "C"  src/unnamed/part_000          (explicit response.create, TTS)    *)
(*   "D"  src/unnamed/part_001          (commit on speech_stopped, no TTS) *)
(* One call is modelled; every handler runs to completion (one action).    *)
(***************************************************************************)
EXTENDS Integers, Sequences, FiniteSets, TLC

\* ---------------------------------------------------------------- constants
FRAME_BYTES == 160
MIN_FRAMES_TO_COMMIT == 6
SPEAK_MAX_ATTEMPTS == 20
WELCOME_MAX_ATTEMPTS_B == 40
WELCOME_MAX_ATTEMPTS_C == 20

\* ------------------------------------------------------------------- bounds
\* Each specification explores the call under its own environment bounds:
\*   "turn"    the listening side (window, silence timer, commits)
\*   "speech"  the speaking side (synthesis transports, barge-in)
\*   "debounce" the silence timer against a clock: SILENCE_MS is SilenceTicks
\*             clock ticks
\*   "protocol" malformed messages on the telephony socket and the reasoning
\*             transport
\*   "text"    response texts streamed as deltas before the completion event
\*   "retry"   the readiness retries of tryWelcome and speakWithEleven, followed
\*             to their last attempt
\*   "commit"  the listening side with more than one commit in flight
TurnMaxWs == 1
TurnMaxFrames == 10
TurnMaxPending == 1
TurnMaxText == 0
SpeechMaxWs == 2
SpeechMaxFrames == 1
SpeechMaxPending == 0
SpeechMaxText == 0
MaxRetryQ == 1
TurnMaxAttempt == 1
SpeechMaxAttempt == 1
MaxSliceFrames == 2
MaxOrphans == 1
IsoMaxWs == 1
IsoMaxFrames == 2
IsoMaxEventsFirst == 8
IsoMaxEventsSecond == 3
RetryMaxWs == 2
TextMaxWs == 2
TextMaxText == 2
DebounceMaxFrames == 2
ProtocolMaxWs == 1
SilenceTicks == 2
RetryMaxAttempt == 40
CommitMaxFrames == 7
CommitMaxPending == 2
MaxWs == IF TurnMaxWs > SpeechMaxWs THEN TurnMaxWs ELSE SpeechMaxWs

MaxWsOf(sc) ==
    IF sc = "turn" THEN TurnMaxWs ELSE IF sc = "iso" THEN IsoMaxWs
    ELSE IF sc = "retry" THEN RetryMaxWs
    ELSE IF sc = "text" THEN TextMaxWs
    ELSE IF sc = "protocol" THEN ProtocolMaxWs ELSE SpeechMaxWs
MaxFramesOf(sc) ==
    IF sc = "turn" THEN TurnMaxFrames ELSE IF sc = "iso" THEN IsoMaxFrames
    ELSE IF sc = "debounce" THEN DebounceMaxFrames
    ELSE IF sc = "commit" THEN CommitMaxFrames ELSE SpeechMaxFrames
MaxPendingOf(sc) ==
    IF sc = "turn" THEN TurnMaxPending ELSE IF sc = "commit" THEN CommitMaxPending
    ELSE SpeechMaxPending
MaxAttemptOf(sc) ==
    IF sc = "turn" THEN TurnMaxAttempt ELSE IF sc = "retry" THEN RetryMaxAttempt
    ELSE SpeechMaxAttempt
MaxTextOf(sc) ==
    IF sc = "turn" THEN TurnMaxText ELSE IF sc = "text" THEN TextMaxText
    ELSE SpeechMaxText

Variants == {"A", "B", "C", "D"}
Null == "null"
NullWs == 0
Sids == {"CA123"}
Transports == 1..MaxWs

\* Characters and texts: a text is a sequence of characters.
SP == " "
WelcomeText == <<"H", "i">>
Deltas == {<<"a">>, <<SP>>}

\* ------------------------------------------------------------ text helpers
RECURSIVE TrimStart(_)
TrimStart(s) ==
    IF s # <<>> /\ Head(s) = SP THEN TrimStart(Tail(s)) ELSE s

RECURSIVE TrimEnd(_)
TrimEnd(s) ==
    IF s # <<>> /\ s[Len(s)] = SP THEN TrimEnd(SubSeq(s, 1, Len(s) - 1)) ELSE s

\* String.prototype.trim
Trim(s) == TrimEnd(TrimStart(s))

\* Array.prototype.join(' ') over the texts of a sequence of parts
RECURSIVE JoinTexts(_)
JoinTexts(ps) ==
    IF ps = <<>> THEN <<>>
    ELSE IF Len(ps) = 1 THEN ps[1]
    ELSE ps[1] \o <<SP>> \o JoinTexts(Tail(ps))

RECURSIVE OutputTexts(_)
OutputTexts(output) ==
    IF output = <<>> THEN <<>>
    ELSE IF Head(output).type = "output_text"
         THEN <<Head(output).text>> \o OutputTexts(Tail(output))
         ELSE OutputTexts(Tail(output))

\* (response.output || []).filter(output_text).map(text).join(' ').trim()
ExtractText(output) == Trim(JoinTexts(OutputTexts(output)))

\* Buffer.from(payload, 'base64').length for a payload of `chars` base64
\* characters of which `pad` are '=' padding.
Base64DecodedLength(p) == (p.chars \div 4) * 3 - p.pad

\* ------------------------------------------------------------ Frame Slicer
\* A slicing loop that stops one byte early (strict comparison).
RECURSIVE SliceLoopStrict(_, _, _)
SliceLoopStrict(buf, off, frames) ==
    IF off + FRAME_BYTES < Len(buf)
    THEN SliceLoopStrict(buf, off + FRAME_BYTES,
                         Append(frames, SubSeq(buf, off + 1, off + FRAME_BYTES)))
    ELSE [frames |-> frames, leftover |-> SubSeq(buf, off + 1, Len(buf))]

RECURSIVE SliceLoop(_, _, _)
SliceLoop(buf, off, frames) ==
    IF off + FRAME_BYTES <= Len(buf)
    THEN SliceLoop(buf, off + FRAME_BYTES,
                   Append(frames, SubSeq(buf, off + 1, off + FRAME_BYTES)))
    ELSE [frames |-> frames, leftover |-> SubSeq(buf, off + 1, Len(buf))]

\* A slicer that drops the carried leftover.
sliceWithoutCarry(ulawBuffer, carry) ==
    SliceLoop(ulawBuffer, 0, <<>>)

sliceIntoUlaw20msFrames(ulawBuffer, carry) ==
    SliceLoop(carry \o ulawBuffer, 0, <<>>)

\* ------------------------------------------------------------------- state
VARIABLES
    scope,          \* the environment bounds of the specification being explored
    variant,        \* which of the four handler closures runs this call
    streamSid,      \* let streamSid = null
    openaiReady,    \* let openaiReady = false
    elevenWs,       \* let elevenWs = null (else a transport id)
    ttsPlaying,     \* let ttsPlaying = false
    ttsCarry,       \* let ttsCarry = Buffer.alloc(0)
    bytesBuffered,  \* let bytesBuffered = 0
    collecting,     \* let collecting = false
    silenceTimer,   \* let silenceTimer = null (TRUE: it holds a timeout handle)
    timerLive,      \* the timeout silenceTimer refers to is scheduled and not yet run
    orphanTimers,   \* scheduled silence timeouts that no variable refers to
    sinceArm,       \* clock ticks since the timeout silenceTimer refers to was set
    sinceFrame,     \* clock ticks since the last inbound media event
    textBuffer,     \* let textBuffer = ''
    oaiState,       \* openAiWs.readyState
    twState,        \* readyState of the telephony socket
    ws,             \* the synthesis transports created so far
    retryQ,         \* pending 100 ms retries (tryWelcome / speakWithEleven), FIFO
    cfgTimer,       \* a setTimeout(sendSessionUpdate, ...) is pending
    cfgSent,        \* session.update reached the reasoning backend
    pendingCommits, \* commits sent and not yet acknowledged (bytes at send)
    oaiOut,         \* messages sent to the reasoning backend by the last handler
    twOut,          \* media events sent to the telephony socket by the last handler
    uncaught,       \* an exception left a handler: the process has ended
    slData,         \* Frame Slicer harness: the whole byte sequence
    slPos,          \* Frame Slicer harness: bytes of slData fed so far
    slCarry,        \* Frame Slicer harness: leftover carried to the next call
    slFrames,       \* Frame Slicer harness: frames produced so far
    slLast,         \* Frame Slicer harness: the last call (inputs and result)
    isoCalls,       \* two concurrent calls: the state of each handler closure
    isoSteps        \* two concurrent calls: events each call has handled

callVars == <<scope, variant, streamSid, openaiReady, elevenWs, ttsPlaying, ttsCarry,
              bytesBuffered, collecting, silenceTimer, timerLive, orphanTimers,
              sinceArm, sinceFrame,
              textBuffer, oaiState, twState, ws, retryQ, cfgTimer, cfgSent, pendingCommits, oaiOut,
              twOut, uncaught>>
sliceVars == <<slData, slPos, slCarry, slFrames, slLast>>
isoVars == <<isoCalls, isoSteps>>
vars == <<callVars, sliceVars, isoVars>>

HasTTS(v) == v \in {"A", "B", "C"}
ExplicitTrigger(v) == v \in {"B", "C"}

NoWs == [rs |-> "NONE", text |-> <<>>, reqs |-> <<>>, timeout |-> FALSE,
         barged |-> FALSE]
NoCall == [carryIn |-> <<>>, chunkIn |-> <<>>, frames |-> <<>>, leftover |-> <<>>,
           done |-> FALSE]

\* The call's state as one record, threaded through a handler's statements.
\* `full` is set when a statement would exceed a bound of the model.
Cur ==
    [scope |-> scope, variant |-> variant, streamSid |-> streamSid, openaiReady |-> openaiReady,
     elevenWs |-> elevenWs, ttsPlaying |-> ttsPlaying, ttsCarry |-> ttsCarry,
     bytesBuffered |-> bytesBuffered, collecting |-> collecting,
     silenceTimer |-> silenceTimer, timerLive |-> timerLive,
     orphanTimers |-> orphanTimers, sinceArm |-> sinceArm,
     sinceFrame |-> sinceFrame, textBuffer |-> textBuffer,
     oaiState |-> oaiState, twState |-> twState, ws |-> ws, retryQ |-> retryQ,
     cfgTimer |-> cfgTimer, cfgSent |-> cfgSent,
     pendingCommits |-> pendingCommits, oaiOut |-> <<>>, twOut |-> <<>>,
     uncaught |-> uncaught, full |-> FALSE]

\* The handler ends in state s.
Done(s) ==
    /\ ~s.full
    /\ ~uncaught
    /\ scope' = scope
    /\ variant' = variant
    /\ streamSid' = s.streamSid
    /\ openaiReady' = s.openaiReady
    /\ elevenWs' = s.elevenWs
    /\ ttsPlaying' = s.ttsPlaying
    /\ ttsCarry' = s.ttsCarry
    /\ bytesBuffered' = s.bytesBuffered
    /\ collecting' = s.collecting
    /\ silenceTimer' = s.silenceTimer
    /\ timerLive' = s.timerLive
    /\ orphanTimers' = s.orphanTimers
    /\ sinceArm' = s.sinceArm
    /\ sinceFrame' = s.sinceFrame
    /\ textBuffer' = s.textBuffer
    /\ oaiState' = s.oaiState
    /\ twState' = s.twState
    /\ ws' = s.ws
    /\ retryQ' = s.retryQ
    /\ cfgTimer' = s.cfgTimer
    /\ cfgSent' = s.cfgSent
    /\ pendingCommits' = s.pendingCommits
    /\ oaiOut' = s.oaiOut
    /\ twOut' = s.twOut
    /\ uncaught' = s.uncaught
    /\ UNCHANGED <<sliceVars, isoVars>>

CallInit ==
    /\ variant \in Variants
    /\ streamSid = Null
    /\ openaiReady = FALSE
    /\ elevenWs = NullWs
    /\ ttsPlaying = FALSE
    /\ ttsCarry = <<>>
    /\ bytesBuffered = 0
    /\ collecting = FALSE
    /\ silenceTimer = FALSE
    /\ timerLive = FALSE
    /\ orphanTimers = 0
    /\ sinceArm = 0
    /\ sinceFrame = 0
    /\ textBuffer = <<>>
    /\ oaiState = "CONNECTING"
    /\ twState = "OPEN"
    /\ ws = [t \in Transports |-> NoWs]
    /\ retryQ = <<>>
    /\ cfgTimer = FALSE
    /\ cfgSent = FALSE
    /\ pendingCommits = <<>>
    /\ oaiOut = <<>>
    /\ twOut = <<>>
    /\ uncaught = FALSE

IsoIdle ==
    /\ isoCalls = <<>>
    /\ isoSteps = <<>>

SliceIdle ==
    /\ IsoIdle
    /\ slData = <<>>
    /\ slPos = 0
    /\ slCarry = <<>>
    /\ slFrames = <<>>
    /\ slLast = NoCall

TurnInit == scope = "turn" /\ CallInit /\ SliceIdle
SpeechInit == scope = "speech" /\ CallInit /\ SliceIdle
RetryInit == scope = "retry" /\ CallInit /\ SliceIdle
DebounceInit == scope = "debounce" /\ CallInit /\ SliceIdle
ProtocolInit == scope = "protocol" /\ CallInit /\ SliceIdle
TextInit == scope = "text" /\ CallInit /\ SliceIdle
CommitInit == scope = "commit" /\ CallInit /\ SliceIdle

\* ------------------------------------------------- environment input sets
\* Inbound telephony payloads: base64 of 160 and of 80 raw bytes.
MediaPayloads == {[chars |-> 216, pad |-> 2], [chars |-> 108, pad |-> 1]}
\* Synthesis audio chunks are not frame aligned.
ChunkLens == {FRAME_BYTES \div 2, FRAME_BYTES + FRAME_BYTES \div 2}
\* response.output of a response.done event
ResponseOutputs ==
    { <<>>,
      <<[type |-> "output_text", text |-> <<"o", "k">>]>>,
      <<[type |-> "output_text", text |-> <<SP>>]>> }
MaxBuffered(sc) == MaxFramesOf(sc) * FRAME_BYTES

\* ------------------------------------------------------ synthesis helpers
Created(w) == {t \in Transports : w[t].rs # "NONE"}
Newest(w) == IF Created(w) = {} THEN 0
             ELSE CHOOSE t \in Created(w) : \A u \in Created(w) : u <= t

\* if (elevenWs && elevenWs.readyState === WebSocket.OPEN) elevenWs.close()
CloseIfOpen(w, t) ==
    IF t # NullWs /\ w[t].rs = "OPEN" THEN [w EXCEPT ![t].rs = "CLOSING"] ELSE w

\* A cancellation that keeps the reference to the transport it closed.
stopTTSKeepsReference(s) ==
    [s EXCEPT !.ttsPlaying = FALSE,
              !.ttsCarry = <<>>,
              !.ws = CloseIfOpen(s.ws, s.elevenWs)]

stopTTS(s) ==
    [s EXCEPT !.ttsPlaying = FALSE,
              !.ttsCarry = <<>>,
              !.ws = CloseIfOpen(s.ws, s.elevenWs),
              !.elevenWs = NullWs]

\* variant A only: the close/error handlers' cleanup; the carry is not cleared
endTTS(s) ==
    [s EXCEPT !.ttsPlaying = FALSE,
              !.ws = CloseIfOpen(s.ws, s.elevenWs),
              !.elevenWs = NullWs]

\* new WebSocket(...); elevenWs = it; ttsPlaying = true; ttsCarry = empty
OpenTransport(s, text) ==
    IF Cardinality(Created(s.ws)) >= MaxWsOf(s.scope) THEN [s EXCEPT !.full = TRUE]
    ELSE LET t == Newest(s.ws) + 1
         IN [s EXCEPT !.ws[t] = [rs |-> "CONNECTING", text |-> text,
                                 reqs |-> <<>>, timeout |-> (s.variant = "A"),
                                 barged |-> FALSE],
                      !.elevenWs = t,
                      !.ttsPlaying = TRUE,
                      !.ttsCarry = <<>>]

\* setTimeout(..., 100) of a readiness retry
Schedule(s, r) ==
    IF Len(s.retryQ) >= MaxRetryQ THEN [s EXCEPT !.full = TRUE]
    ELSE [s EXCEPT !.retryQ = Append(@, r)]

speakWithElevenA(s, text) ==
    IF text = <<>> \/ s.ttsPlaying THEN s
    ELSE OpenTransport(
             [s EXCEPT !.ws = CloseIfOpen(s.ws, s.elevenWs), !.elevenWs = NullWs],
             text)

TwilioReady(s) == s.streamSid # Null /\ s.twState = "OPEN"

\* A readiness retry that never gives up.
speakWithElevenNoLimit(s, text, attempt) ==
    IF text = <<>> \/ Trim(text) = <<>> THEN s
    ELSE IF ~TwilioReady(s)
    THEN Schedule(s, [kind |-> "speak", text |-> text, attempt |-> attempt + 1])
    ELSE IF s.ttsPlaying THEN s
    ELSE OpenTransport([s EXCEPT !.ws = CloseIfOpen(s.ws, s.elevenWs)], text)

speakWithElevenBC(s, text, attempt) ==
    IF text = <<>> \/ Trim(text) = <<>> THEN s
    ELSE IF ~TwilioReady(s)
    THEN IF attempt < SPEAK_MAX_ATTEMPTS
         THEN Schedule(s, [kind |-> "speak", text |-> text, attempt |-> attempt + 1])
         ELSE s
    ELSE IF s.ttsPlaying THEN s
    ELSE OpenTransport([s EXCEPT !.ws = CloseIfOpen(s.ws, s.elevenWs)], text)

speakWithEleven(s, text, attempt) ==
    IF s.variant = "A" THEN speakWithElevenA(s, text)
    ELSE speakWithElevenBC(s, text, attempt)

WelcomeMaxAttempts(v) ==
    IF v = "B" THEN WELCOME_MAX_ATTEMPTS_B ELSE WELCOME_MAX_ATTEMPTS_C

\* A welcome poll that never gives up.
tryWelcomeNoLimit(s, attempt) ==
    IF s.openaiReady /\ TwilioReady(s)
    THEN speakWithElevenBC(s, WelcomeText, 0)
    ELSE Schedule(s, [kind |-> "welcome", text |-> <<>>, attempt |-> attempt + 1])

tryWelcome(s, attempt) ==
    IF s.openaiReady /\ TwilioReady(s)
    THEN speakWithElevenBC(s, WelcomeText, 0)
    ELSE IF attempt < WelcomeMaxAttempts(s.variant)
    THEN Schedule(s, [kind |-> "welcome", text |-> <<>>, attempt |-> attempt + 1])
    ELSE s

\* The per-frame guard of the forwarding loop.
MayForward(s) ==
    /\ s.ttsPlaying
    /\ s.twState = "OPEN"
    /\ (s.variant = "A" \/ s.streamSid # Null)

\* The forwarding loop over the sliced frames, in the handler of transport t.
\* failAt is the index of the frame whose send throws (0: none does).
\* Variant A uses forEach (a skipped frame does not end the loop), B and C break.
RECURSIVE ForwardFrames(_, _, _, _, _)
ForwardFrames(s, frames, i, t, failAt) ==
    IF i > Len(frames) THEN s
    ELSE IF ~MayForward(s)
    THEN IF s.variant = "A" THEN ForwardFrames(s, frames, i + 1, t, failAt) ELSE s
    ELSE IF i = failAt
    THEN IF s.variant = "A"
         THEN ForwardFrames(stopTTS(s), frames, i + 1, t, failAt)
         ELSE stopTTS(s)
    ELSE ForwardFrames(
             [s EXCEPT !.twOut = Append(@, [event |-> "media",
                                            streamSid |-> s.streamSid,
                                            payload |-> frames[i],
                                            from |-> t,
                                            newest |-> Newest(s.ws)])],
             frames, i + 1, t, failAt)

\* ------------------------------------------------------ silence timer
\* clearTimeout(silenceTimer): the timeout the variable refers to will not run
CancelTimer(s) == [s EXCEPT !.timerLive = FALSE]

\* silenceTimer = setTimeout(() => commitAudioBuffer(), SILENCE_MS): a timeout
\* the variable still referred to, and that is still scheduled, is orphaned
SetTimer(s) ==
    IF s.timerLive /\ s.orphanTimers >= MaxOrphans THEN [s EXCEPT !.full = TRUE]
    ELSE [s EXCEPT !.orphanTimers = IF s.timerLive THEN @ + 1 ELSE @,
                   !.timerLive = TRUE,
                   !.silenceTimer = TRUE,
                   !.sinceArm = 0]

\* if (silenceTimer) { clearTimeout(silenceTimer); silenceTimer = null; }
ClearSilenceTimer(s) ==
    IF s.silenceTimer THEN [CancelTimer(s) EXCEPT !.silenceTimer = FALSE] ELSE s

\* A rearm that does not cancel the pending timeout.
ArmSilenceTimerNoClear(s) == SetTimer(s)

\* if (silenceTimer) clearTimeout(silenceTimer); silenceTimer = setTimeout(...)
ArmSilenceTimer(s) ==
    SetTimer(IF s.silenceTimer THEN CancelTimer(s) ELSE s)

\* ------------------------------------------------------ reasoning helpers
\* openAiWs.send(msg): delivered when the socket is open and send does not throw
Delivered(s, ok) == s.oaiState = "OPEN" /\ ok

\* A threshold test that is off by one frame.
EnoughFramesOffByOne(bytes) == bytes \div FRAME_BYTES >= MIN_FRAMES_TO_COMMIT - 1

EnoughFrames(bytes) == bytes \div FRAME_BYTES >= MIN_FRAMES_TO_COMMIT

NoteCommit(s) ==
    IF Len(s.pendingCommits) >= MaxPendingOf(s.scope) THEN [s EXCEPT !.full = TRUE]
    ELSE [s EXCEPT !.pendingCommits = Append(@, s.bytesBuffered),
                   !.oaiOut = Append(@, [type |-> "input_audio_buffer.commit"])]

RequestResponse(s) ==
    [s EXCEPT !.oaiOut = Append(@, [type |-> "response.create"])]

\* variant A: commit only; the backend creates the response itself
commitAudioBufferA(s, okCommit) ==
    LET s1 == ClearSilenceTimer(s)
    IN IF s1.bytesBuffered = 0 THEN s1
       ELSE IF EnoughFrames(s1.bytesBuffered) /\ s1.oaiState = "OPEN"
       THEN IF Delivered(s1, okCommit) THEN NoteCommit(s1)
            ELSE [s1 EXCEPT !.bytesBuffered = 0, !.collecting = FALSE]
       ELSE s1

\* A commit routine that sends the response request before the commit.
commitAudioBufferSwapped(s, okCommit, okCreate) ==
    LET s1 == ClearSilenceTimer(s)
    IN IF ~EnoughFrames(s1.bytesBuffered) THEN s1
       ELSE IF s1.oaiState # "OPEN" \/ ~s1.openaiReady THEN s1
       ELSE IF ~Delivered(s1, okCreate) THEN s1
       ELSE IF ~Delivered(s1, okCommit) THEN RequestResponse(s1)
       ELSE NoteCommit(RequestResponse(s1))

\* A commit routine that discards the window when the session cannot take it.
commitAudioBufferDiscards(s, okCommit, okCreate) ==
    LET s1 == ClearSilenceTimer(s)
    IN IF ~EnoughFrames(s1.bytesBuffered) THEN s1
       ELSE IF s1.oaiState # "OPEN" \/ ~s1.openaiReady
       THEN [s1 EXCEPT !.bytesBuffered = 0, !.collecting = FALSE]
       ELSE IF ~Delivered(s1, okCommit) THEN s1
       ELSE IF ~Delivered(s1, okCreate) THEN NoteCommit(s1)
       ELSE RequestResponse(NoteCommit(s1))

\* variants B and C: commit, then response.create, inside one try block
commitAudioBufferBC(s, okCommit, okCreate) ==
    LET s1 == ClearSilenceTimer(s)
    IN IF ~EnoughFrames(s1.bytesBuffered) THEN s1
       ELSE IF s1.oaiState # "OPEN" \/ ~s1.openaiReady THEN s1
       ELSE IF ~Delivered(s1, okCommit) THEN s1
       ELSE IF ~Delivered(s1, okCreate) THEN NoteCommit(s1)
       ELSE RequestResponse(NoteCommit(s1))

commitAudioBuffer(s, okCommit, okCreate) ==
    IF s.variant = "A" THEN commitAudioBufferA(s, okCommit)
    ELSE commitAudioBufferBC(s, okCommit, okCreate)

\* bytesBuffered += rawLength / setAudioBuffer(bytesBuffered + rawLen)
CountBytes(s, rawLen) ==
    IF s.bytesBuffered + rawLen > MaxBuffered(s.scope) THEN [s EXCEPT !.full = TRUE]
    ELSE [s EXCEPT !.collecting = TRUE, !.bytesBuffered = @ + rawLen]

AppendAudio(s) ==
    [s EXCEPT !.oaiOut = Append(@, [type |-> "input_audio_buffer.append"])]

\* if (ttsPlaying) stopTTS()
BargeIn(s) ==
    IF s.ttsPlaying
    THEN stopTTS([s EXCEPT !.ws = IF s.elevenWs # NullWs
                                   THEN [s.ws EXCEPT ![s.elevenWs].barged = TRUE]
                                   ELSE s.ws])
    ELSE s

\* ------------------------------------------------- reasoning transport
\* openAiWs.on('open'): setTimeout(sendSessionUpdate, 250)
OnOpenAiOpen ==
    /\ oaiState = "CONNECTING"
    /\ Done([Cur EXCEPT !.oaiState = "OPEN", !.cfgTimer = TRUE])

\* The sendSessionUpdate timer fires. Variant A retries after a failed send
\* while the socket is still open.
sendSessionUpdate(s, ok) ==
    LET s1 == [s EXCEPT !.cfgTimer = FALSE]
    IN IF Delivered(s1, ok)
       THEN [s1 EXCEPT !.cfgSent = TRUE,
                       !.oaiOut = Append(@, [type |-> "session.update"])]
       ELSE IF s1.variant = "A" /\ s1.oaiState = "OPEN"
       THEN [s1 EXCEPT !.cfgTimer = TRUE]
       ELSE s1

SessionUpdateTimer ==
    /\ cfgTimer
    /\ \E ok \in BOOLEAN : Done(sendSessionUpdate(Cur, ok))

Receiving(state) == state \in {"OPEN", "CLOSING"}

\* session.updated: the backend answers each session.update once
sessionUpdated(s) ==
    LET s1 == [s EXCEPT !.openaiReady = TRUE, !.cfgSent = FALSE]
    IN IF ExplicitTrigger(s.variant) THEN tryWelcome(s1, 0)
       ELSE [s1 EXCEPT !.bytesBuffered = 0, !.collecting = FALSE]

OnSessionUpdated ==
    /\ Receiving(oaiState)
    /\ cfgSent
    /\ Done(sessionUpdated(Cur))

\* input_audio_buffer.committed (variant D has no branch for it)
committed(s) ==
    LET s1 == [s EXCEPT !.pendingCommits = IF @ = <<>> THEN @ ELSE Tail(@)]
    IN IF s.variant = "D" THEN s1
       ELSE [s1 EXCEPT !.bytesBuffered = 0, !.collecting = FALSE]

OnCommitted ==
    /\ Receiving(oaiState)
    /\ openaiReady
    /\ Done(committed(Cur))

\* response.output_text.delta (variants B and C accumulate it)
OnTextDelta ==
    /\ Receiving(oaiState)
    /\ openaiReady
    /\ ExplicitTrigger(variant)
    /\ \E d \in Deltas :
          /\ Len(textBuffer) + Len(d) <= MaxTextOf(scope)
          /\ Done([Cur EXCEPT !.textBuffer = @ \o d])

\* A completion handler that speaks a filler when the response has no text.
responseDoneFiller(s, output) ==
    LET text == ExtractText(output)
        toSpeak == IF text # <<>> THEN text
                   ELSE IF Trim(s.textBuffer) # <<>> THEN Trim(s.textBuffer)
                   ELSE WelcomeText
        s1 == [s EXCEPT !.textBuffer = <<>>]
    IN IF s.variant = "D" THEN s ELSE speakWithEleven(s1, toSpeak, 0)

\* A completion handler that leaves the buffered deltas in place.
responseDoneKeepsDeltas(s, output) ==
    LET fullText == ExtractText(output)
        toSpeak == IF fullText # <<>> THEN fullText ELSE Trim(s.textBuffer)
    IN IF ~ExplicitTrigger(s.variant) THEN s
       ELSE IF toSpeak # <<>> THEN speakWithEleven(s, toSpeak, 0) ELSE s

\* response.completed / response.done
responseDone(s, output) ==
    IF s.variant = "A"
    THEN LET text == ExtractText(output)
         IN IF text # <<>> THEN speakWithEleven(s, text, 0) ELSE s
    ELSE IF s.variant = "D" THEN s
    ELSE LET fullText == ExtractText(output)
             toSpeak == IF fullText # <<>> THEN fullText ELSE Trim(s.textBuffer)
             s1 == [s EXCEPT !.textBuffer = <<>>]
         IN IF toSpeak # <<>> THEN speakWithEleven(s1, toSpeak, 0) ELSE s1

OnResponseDone ==
    /\ Receiving(oaiState)
    /\ openaiReady
    /\ \E output \in ResponseOutputs : Done(responseDone(Cur, output))

\* variant D: input_audio_buffer.speech_stopped commits and resets the window
speechStopped(s, okCommit, okCreate) ==
    LET s1 == IF ~EnoughFrames(s.bytesBuffered) THEN s
              ELSE IF ~Delivered(s, okCommit) THEN s
              ELSE IF ~Delivered(s, okCreate) THEN NoteCommit(s)
              ELSE RequestResponse(NoteCommit(s))
    IN [s1 EXCEPT !.bytesBuffered = 0, !.collecting = FALSE]

OnSpeechStopped ==
    /\ Receiving(oaiState)
    /\ openaiReady
    /\ variant = "D"
    /\ \E okCommit \in BOOLEAN, okCreate \in BOOLEAN :
          Done(speechStopped(Cur, okCommit, okCreate))

\* openAiWs closes (or fails to connect); the handlers only log
OnOpenAiClose ==
    /\ oaiState # "CLOSED"
    /\ Done([Cur EXCEPT !.oaiState = "CLOSED"])

\* ------------------------------------------------- telephony socket
twilioStart(s, sid) ==
    LET s1 == [s EXCEPT !.streamSid = sid]
    IN IF ExplicitTrigger(s.variant) THEN tryWelcome(s1, 0) ELSE s1

\* the telephony protocol sends start once, before any media
OnTwilioStart ==
    /\ twState = "OPEN"
    /\ streamSid = Null
    /\ \E sid \in Sids : Done(twilioStart(Cur, sid))

\* An append guard that does not wait for the configuration acknowledgement.
MayAppendUnready(s) == s.oaiState = "OPEN"

\* the guard of the append branch
MayAppend(s) == s.oaiState = "OPEN" /\ s.openaiReady

\* A media branch in which the frame that barges in is used up by the
\* cancellation.
twilioMediaBargeInOnly(s, payload, ok) ==
    LET rawLen == Base64DecodedLength(payload)
    IN IF HasTTS(s.variant) /\ s.ttsPlaying THEN BargeIn(s)
       ELSE IF ~MayAppend(s) THEN s
       ELSE IF Delivered(s, ok)
       THEN ArmSilenceTimer(CountBytes(AppendAudio(s), rawLen))
       ELSE s

\* case 'media'
twilioMedia(s, payload, ok) ==
    LET rawLen == Base64DecodedLength(payload)
        s0 == [s EXCEPT !.sinceFrame = 0]
        s1 == IF HasTTS(s.variant) THEN BargeIn(s0) ELSE s0
    IN IF ~MayAppend(s1) THEN s1
       ELSE IF ExplicitTrigger(s.variant)
       THEN \* send first; a throw leaves the handler through the outer catch
            IF Delivered(s1, ok)
            THEN ArmSilenceTimer(CountBytes(AppendAudio(s1), rawLen))
            ELSE s1
       ELSE \* count first, then send; the timer is armed after a good send
            LET s2 == CountBytes(s1, rawLen)
            IN IF Delivered(s2, ok)
               THEN IF s.variant = "A"
                    THEN ArmSilenceTimer(AppendAudio(s2))
                    ELSE AppendAudio(s2)
               ELSE s2

OnTwilioMedia ==
    /\ twState = "OPEN"
    /\ streamSid # Null
    /\ \E payload \in MediaPayloads, ok \in BOOLEAN :
          Done(twilioMedia(Cur, payload, ok))

\* A stop branch that ends the turn: it cancels the silence timer and the
\* utterance.
OnTwilioStopEndsTurn ==
    /\ twState = "OPEN"
    /\ streamSid # Null
    /\ Done(stopTTS(ClearSilenceTimer(Cur)))

\* case 'stop': the branch only logs
OnTwilioStop ==
    /\ twState = "OPEN"
    /\ streamSid # Null
    /\ Done(Cur)

\* the peer starts closing the telephony socket: readyState leaves OPEN before
\* the close event is delivered
TwilioClosing ==
    /\ twState = "OPEN"
    /\ Done([Cur EXCEPT !.twState = "CLOSING"])

\* connection.on('close')
twilioClose(s) ==
    LET s1 == [s EXCEPT !.twState = "CLOSED",
                        !.oaiState = IF @ = "OPEN" THEN "CLOSING" ELSE @]
    IN IF HasTTS(s.variant) THEN stopTTS(ClearSilenceTimer(s1))
       ELSE s1

OnTwilioClose ==
    /\ twState # "CLOSED"
    /\ Done(twilioClose(Cur))

\* ------------------------------------------------- timers
\* a scheduled silence timeout runs: the one silenceTimer refers to, or an orphan
TimerRuns(s, orphan) ==
    IF orphan THEN [s EXCEPT !.orphanTimers = @ - 1] ELSE [s EXCEPT !.timerLive = FALSE]

OnSilenceTimer ==
    \E orphan \in BOOLEAN, okCommit \in BOOLEAN, okCreate \in BOOLEAN :
        /\ IF orphan THEN orphanTimers > 0 ELSE timerLive
        /\ Done(commitAudioBuffer(TimerRuns(Cur, orphan), okCommit, okCreate))

retryFire(s) ==
    LET r == Head(s.retryQ)
        s1 == [s EXCEPT !.retryQ = Tail(@)]
    IN IF r.kind = "welcome" THEN tryWelcome(s1, r.attempt)
       ELSE speakWithElevenBC(s1, r.text, r.attempt)

\* a retry whose attempt number exceeds the scope's bound is not followed
OnRetryTimer ==
    /\ retryQ # <<>>
    /\ Head(retryQ).attempt <= MaxAttemptOf(scope)
    /\ Done(retryFire(Cur))

\* ------------------------------------------------- synthesis transports
\* the bytes of a chunk are tagged with the transport that delivered them
Chunk(t, n) == [i \in 1..n |-> t]

\* the 'open' handler registered on transport t. Variant A sends on its own
\* socket (elWs); B and C send on whatever elevenWs holds when the event runs.
elevenOpen(s, t, ok) ==
    LET s1 == [s EXCEPT !.ws[t].rs = "OPEN"]
    IN IF s.variant = "A"
       THEN LET s2 == [s1 EXCEPT !.ws[t].timeout = FALSE]
            IN IF ok THEN [s2 EXCEPT !.ws[t].reqs = Append(@, s.ws[t].text)]
               ELSE stopTTS(s2)
       ELSE LET target == s1.elevenWs
            IN IF target # NullWs /\ s1.ws[target].rs = "OPEN" /\ ok
               THEN [s1 EXCEPT !.ws[target].reqs = Append(@, s.ws[t].text)]
               ELSE stopTTS(s1)

OnElevenOpen ==
    \E t \in Transports, ok \in BOOLEAN :
        /\ ws[t].rs = "CONNECTING"
        /\ Done(elevenOpen(Cur, t, ok))

\* a binary message on transport t
elevenAudio(s, t, chunk, failAt) ==
    LET r == sliceIntoUlaw20msFrames(chunk, s.ttsCarry)
    IN ForwardFrames([s EXCEPT !.ttsCarry = r.leftover], r.frames, 1, t, failAt)

\* the synthesis backend streams audio on a transport that got a request
OnElevenAudio ==
    \E t \in Transports, n \in ChunkLens, failAt \in {0, 1} :
        /\ Receiving(ws[t].rs)
        /\ ws[t].reqs # <<>>
        /\ Done(elevenAudio(Cur, t, Chunk(t, n), failAt))

\* a JSON text message on transport t
elevenControl(s, type) ==
    IF type \in {"error", "audio_stream_end"} THEN stopTTS(s) ELSE s

OnElevenControl ==
    \E t \in Transports, type \in {"error", "audio_stream_end", "audio_stream_start"} :
        /\ Receiving(ws[t].rs)
        /\ Done(elevenControl(Cur, type))

\* the close / error handlers registered on transport t
elevenGone(s, t, rs) ==
    LET s1 == [s EXCEPT !.ws[t].rs = rs]
    IN IF s.variant = "A" THEN endTTS([s1 EXCEPT !.ws[t].timeout = FALSE])
       ELSE stopTTS(s1)

OnElevenClose ==
    \E t \in Transports :
        /\ ws[t].rs \in {"CONNECTING", "OPEN", "CLOSING"}
        /\ Done(elevenGone(Cur, t, "CLOSED"))

OnElevenError ==
    \E t \in Transports :
        /\ ws[t].rs \in {"CONNECTING", "OPEN"}
        /\ Done(elevenGone(Cur, t, "CLOSING"))

\* variant A: the 10 s connection timeout of transport t
connectionTimeout(s, t) ==
    [s EXCEPT !.ws[t].timeout = FALSE,
              !.ws[t].rs = IF @ = "CONNECTING" THEN "CLOSING" ELSE @]

OnConnectionTimeout ==
    \E t \in Transports :
        /\ ws[t].timeout
        /\ Done(connectionTimeout(Cur, t))

\* ------------------------------------------------- specification
\* The backend of these specifications sends final texts only: OnTextDelta is
\* not among the events of the "turn" and "speech" environments.
Next ==
    \/ OnOpenAiOpen
    \/ SessionUpdateTimer
    \/ OnSessionUpdated
    \/ OnCommitted
    \/ OnResponseDone
    \/ OnSpeechStopped
    \/ OnOpenAiClose
    \/ OnTwilioStart
    \/ OnTwilioMedia
    \/ OnTwilioStop
    \/ TwilioClosing
    \/ OnTwilioClose
    \/ OnSilenceTimer
    \/ OnRetryTimer
    \/ OnElevenOpen
    \/ OnElevenAudio
    \/ OnElevenControl
    \/ OnElevenClose
    \/ OnElevenError
    \/ OnConnectionTimeout

TurnSpec == TurnInit /\ [][Next]_vars

SpeechSpec == SpeechInit /\ [][Next]_vars

\* ------------------------------------------------- malformed messages
\* what a message on the telephony socket can be instead of a well-formed event
TwilioMalformed ==
    {"unparseable", "null", "unknown", "startNoStart", "mediaNoMedia", "mediaNoPayload"}

\* connection.on('message') on such a message. The whole handler is one try
\* block: a throw ends it with what was assigned before.
\*   mediaNoMedia    data.media is undefined: data.media.payload throws
\*   mediaNoPayload  data.media.payload is undefined: Buffer.from(undefined) throws
twilioMalformed(s, kind, ok) ==
    IF kind \notin {"mediaNoMedia", "mediaNoPayload"} THEN s
    ELSE LET s1 == IF HasTTS(s.variant) THEN BargeIn(s) ELSE s
         IN IF ~MayAppend(s1) \/ kind = "mediaNoMedia" THEN s1
            ELSE IF ExplicitTrigger(s.variant)
            THEN \* the append is sent without its audio, then the length throws
                 IF Delivered(s1, ok) THEN AppendAudio(s1) ELSE s1
            ELSE \* collecting is set, then the length throws
                 [s1 EXCEPT !.collecting = TRUE]

OnTwilioMalformed ==
    /\ twState = "OPEN"
    /\ \E kind \in TwilioMalformed, ok \in BOOLEAN : Done(twilioMalformed(Cur, kind, ok))

\* what a message on the reasoning transport can be instead of a known event
OpenAiMalformed == {"unparseable", "null", "unknown"}

\* openAiWs.on('message') on such a message. Variants A and D parse and
\* dispatch inside one try block; B and C guard only JSON.parse, and reading
\* evt.type of null throws outside it.
openAiMalformed(s, kind) ==
    IF kind = "null" /\ ExplicitTrigger(s.variant) THEN [s EXCEPT !.uncaught = TRUE]
    ELSE s

OnOpenAiMalformed ==
    /\ Receiving(oaiState)
    /\ \E kind \in OpenAiMalformed : Done(openAiMalformed(Cur, kind))

\* The "protocol" environment: the events of a call and the malformed messages.
ProtocolNext ==
    \/ OnOpenAiOpen
    \/ SessionUpdateTimer
    \/ OnSessionUpdated
    \/ OnCommitted
    \/ OnResponseDone
    \/ OnOpenAiClose
    \/ OnTwilioStart
    \/ OnTwilioMedia
    \/ TwilioClosing
    \/ OnTwilioClose
    \/ OnSilenceTimer
    \/ OnRetryTimer
    \/ OnElevenOpen
    \/ OnElevenAudio
    \/ OnElevenClose
    \/ OnTwilioMalformed
    \/ OnOpenAiMalformed

ProtocolSpec == ProtocolInit /\ [][ProtocolNext]_vars

\* ------------------------------------------------- the silence timer in time
\* A timeout set SilenceTicks ticks ago is due; the clock does not pass a due
\* timeout.
TimerDue == timerLive /\ sinceArm >= SilenceTicks

Tick ==
    /\ scope = "debounce"
    /\ ~TimerDue
    /\ sinceArm < SilenceTicks \/ sinceFrame < SilenceTicks
    /\ Done([Cur EXCEPT !.sinceArm = IF @ < SilenceTicks THEN @ + 1 ELSE @,
                        !.sinceFrame = IF @ < SilenceTicks THEN @ + 1 ELSE @])

\* the timeout silenceTimer refers to runs when it is due
OnSilenceTimerDue ==
    /\ TimerDue
    /\ \E okCommit \in BOOLEAN, okCreate \in BOOLEAN :
          Done(commitAudioBuffer(TimerRuns(Cur, FALSE), okCommit, okCreate))

\* The "debounce" environment: the listening side, utterances that a frame
\* can barge in on, and the clock.
DebounceNext ==
    \/ OnOpenAiOpen
    \/ SessionUpdateTimer
    \/ OnSessionUpdated
    \/ OnCommitted
    \/ OnResponseDone
    \/ OnOpenAiClose
    \/ OnTwilioStart
    \/ OnTwilioMedia
    \/ TwilioClosing
    \/ OnTwilioClose
    \/ OnElevenClose
    \/ OnSilenceTimerDue
    \/ Tick

DebounceSpec == DebounceInit /\ [][DebounceNext]_vars

\* The "retry" environment: the events that change what a readiness retry
\* reads (stream identifier, telephony socket, readiness flag, playing flag)
\* or writes (the pending retries, the synthesis transports).
RetryNext ==
    \/ OnOpenAiOpen
    \/ SessionUpdateTimer
    \/ OnSessionUpdated
    \/ OnResponseDone
    \/ OnTwilioStart
    \/ OnTwilioMedia
    \/ TwilioClosing
    \/ OnTwilioClose
    \/ OnRetryTimer
    \/ OnElevenOpen
    \/ OnElevenControl
    \/ OnElevenClose

RetrySpec == RetryInit /\ [][RetryNext]_vars

\* The "text" environment: the same events, and the backend also streams
\* text deltas before a completion event.
TextNext == RetryNext \/ OnTextDelta

TextSpec == TextInit /\ [][TextNext]_vars

\* The "commit" environment: the listening side, the backend free to delay
\* its acknowledgements.
CommitNext ==
    \/ OnOpenAiOpen
    \/ SessionUpdateTimer
    \/ OnSessionUpdated
    \/ OnCommitted
    \/ OnSpeechStopped
    \/ OnOpenAiClose
    \/ OnTwilioStart
    \/ OnTwilioMedia
    \/ TwilioClosing
    \/ OnTwilioClose
    \/ OnSilenceTimer
    \/ OnRetryTimer

CommitSpec == CommitInit /\ [][CommitNext]_vars

\* ------------------------------------------------- Frame Slicer harness
Bytes(n, b) == [i \in 1..n |-> (b + i) % 256]
SliceLens ==
    {k * FRAME_BYTES + d : k \in 0..MaxSliceFrames, d \in {-1, 0, 1}} \ {-1}
CutLens == {0, 1, FRAME_BYTES - 1, FRAME_BYTES, FRAME_BYTES + 1, 2 * FRAME_BYTES}
CarryLens == {0, 1, FRAME_BYTES \div 2, FRAME_BYTES - 1}

SliceInit ==
    /\ scope = "slice"
    /\ CallInit
    /\ variant = "B"
    /\ slData \in {Bytes(n, b) : n \in SliceLens, b \in {0, 7}}
    /\ slPos = 0
    /\ slCarry = <<>>
    /\ slFrames = <<>>
    /\ slLast = NoCall
    /\ IsoIdle

SliceCall(chunk, carry) ==
    LET r == sliceIntoUlaw20msFrames(chunk, carry)
    IN [carryIn |-> carry, chunkIn |-> chunk, frames |-> r.frames,
        leftover |-> r.leftover, done |-> TRUE]

\* feed the next n bytes of slData, carrying the previous leftover
SliceFeed ==
    \E n \in CutLens \cup {Len(slData) - slPos} :
        /\ slPos < Len(slData) \/ (n = 0 /\ ~slLast.done)
        /\ slPos + n <= Len(slData)
        /\ slLast' = SliceCall(SubSeq(slData, slPos + 1, slPos + n), slCarry)
        /\ slCarry' = slLast'.leftover
        /\ slFrames' = slFrames \o slLast'.frames
        /\ slPos' = slPos + n
        /\ UNCHANGED <<slData, callVars, isoVars>>

\* one call on an arbitrary carry shorter than a frame and an arbitrary chunk
SliceOnce ==
    \E c \in CarryLens, n \in SliceLens :
        /\ slPos = 0
        /\ slLast' = SliceCall(Bytes(n, 3), Bytes(c, 100))
        /\ UNCHANGED <<slData, slPos, slCarry, slFrames, callVars, isoVars>>

SliceNext == SliceFeed \/ SliceOnce

SliceSpec == SliceInit /\ [][SliceNext]_vars

\* ------------------------------------------------- two concurrent calls
\* Each connection runs the handler closure on variables of its own.
IsoCalls == {1, 2}
IsoMaxEvents(c) == IF c = 1 THEN IsoMaxEventsFirst ELSE IsoMaxEventsSecond

\* the variables of a closure when the connection is accepted
NewCall(v) ==
    [scope |-> "iso", variant |-> v, streamSid |-> Null, openaiReady |-> FALSE,
     elevenWs |-> NullWs, ttsPlaying |-> FALSE, ttsCarry |-> <<>>,
     bytesBuffered |-> 0, collecting |-> FALSE,
     silenceTimer |-> FALSE, timerLive |-> FALSE,
     orphanTimers |-> 0, sinceArm |-> 0, sinceFrame |-> 0, textBuffer |-> <<>>,
     oaiState |-> "CONNECTING", twState |-> "OPEN",
     ws |-> [t \in Transports |-> NoWs], retryQ |-> <<>>,
     cfgTimer |-> FALSE, cfgSent |-> FALSE,
     pendingCommits |-> <<>>, oaiOut |-> <<>>, twOut |-> <<>>,
     uncaught |-> FALSE, full |-> FALSE]

\* the events of the reasoning transport a call can handle in state s
ReasoningOutcomes(s) ==
    (IF s.oaiState = "CONNECTING"
     THEN {[s EXCEPT !.oaiState = "OPEN", !.cfgTimer = TRUE]} ELSE {})
    \cup (IF s.cfgTimer THEN {sendSessionUpdate(s, ok) : ok \in BOOLEAN} ELSE {})
    \cup (IF Receiving(s.oaiState) /\ s.cfgSent THEN {sessionUpdated(s)} ELSE {})
    \cup (IF Receiving(s.oaiState) /\ s.openaiReady
          THEN {committed(s)}
               \cup {responseDone(s, output) : output \in ResponseOutputs}
               \cup (IF s.variant = "D"
                     THEN {speechStopped(s, okCommit, okCreate) :
                              okCommit \in BOOLEAN, okCreate \in BOOLEAN}
                     ELSE {})
          ELSE {})
    \cup (IF s.oaiState # "CLOSED" THEN {[s EXCEPT !.oaiState = "CLOSED"]} ELSE {})

\* the events of the telephony socket and the timers
TelephonyOutcomes(s) ==
    (IF s.twState = "OPEN" /\ s.streamSid = Null
     THEN {twilioStart(s, sid) : sid \in Sids} ELSE {})
    \cup (IF s.twState = "OPEN" /\ s.streamSid # Null
          THEN {twilioMedia(s, payload, ok) : payload \in MediaPayloads, ok \in BOOLEAN}
               \cup {s}
          ELSE {})
    \cup (IF s.twState = "OPEN" THEN {[s EXCEPT !.twState = "CLOSING"]} ELSE {})
    \cup (IF s.twState # "CLOSED" THEN {twilioClose(s)} ELSE {})
    \cup (IF s.timerLive
          THEN {commitAudioBuffer(TimerRuns(s, FALSE), okCommit, okCreate) :
                   okCommit \in BOOLEAN, okCreate \in BOOLEAN}
          ELSE {})
    \cup (IF s.retryQ # <<>> /\ Head(s.retryQ).attempt <= MaxAttemptOf(s.scope)
          THEN {retryFire(s)} ELSE {})

\* the events of the synthesis transports
SynthesisOutcomes(s) ==
    UNION {
        (IF s.ws[t].rs = "CONNECTING"
         THEN {elevenOpen(s, t, ok) : ok \in BOOLEAN} ELSE {})
        \cup (IF Receiving(s.ws[t].rs) /\ s.ws[t].reqs # <<>>
              THEN {elevenAudio(s, t, Chunk(t, n), failAt) :
                       n \in ChunkLens, failAt \in {0, 1}}
              ELSE {})
        \cup (IF Receiving(s.ws[t].rs)
              THEN {elevenControl(s, type) : type \in {"error", "audio_stream_end"}}
              ELSE {})
        \cup (IF s.ws[t].rs \in {"CONNECTING", "OPEN", "CLOSING"}
              THEN {elevenGone(s, t, "CLOSED")} ELSE {})
        \cup (IF s.ws[t].timeout THEN {connectionTimeout(s, t)} ELSE {})
        : t \in Transports }

IsoOutcomes(s) ==
    {r \in ReasoningOutcomes(s) \cup TelephonyOutcomes(s) \cup SynthesisOutcomes(s) :
        ~r.full}

\* A store in which the byte count is one variable shared by all connections.
DeliverShared(cs, c, r) ==
    [d \in DOMAIN cs |->
        IF d = c THEN r ELSE [cs[d] EXCEPT !.bytesBuffered = r.bytesBuffered]]

\* the handler of connection c ends in state r: it wrote the variables of its
\* own closure
Deliver(cs, c, r) == [cs EXCEPT ![c] = r]

IsoInit ==
    /\ scope = "iso"
    /\ CallInit
    /\ slData = <<>>
    /\ slPos = 0
    /\ slCarry = <<>>
    /\ slFrames = <<>>
    /\ slLast = NoCall
    /\ isoCalls = [c \in IsoCalls |-> NewCall(variant)]
    /\ isoSteps = [c \in IsoCalls |-> 0]

\* one event is delivered to one of the two calls
IsoDeliver ==
    \E c \in IsoCalls :
        /\ isoSteps[c] < IsoMaxEvents(c)
        /\ \E r \in IsoOutcomes([isoCalls[c] EXCEPT !.oaiOut = <<>>, !.twOut = <<>>]) :
              isoCalls' = Deliver(isoCalls, c, r)
        /\ isoSteps' = [isoSteps EXCEPT ![c] = @ + 1]
        /\ UNCHANGED <<callVars, sliceVars>>

IsoSpec == IsoInit /\ [][IsoDeliver]_vars

\* ------------------------------------------------- properties
COMMIT == "input_audio_buffer.commit"
APPEND == "input_audio_buffer.append"
CREATE == "response.create"
Types(out) == {out[i].type : i \in 1..Len(out)}
CommitThreshold == MIN_FRAMES_TO_COMMIT * FRAME_BYTES

RECURSIVE Flatten(_)
Flatten(fs) == IF fs = <<>> THEN <<>> ELSE Head(fs) \o Flatten(Tail(fs))

\* C1: once a telephony media event has barged in on a SpeechSession, no frame
\* delivered afterwards by that session's synthesis transport is forwarded to
\* the telephony socket, also after a later session has been started.
C1_NoForwardAfterBargeIn ==
    [][\A i \in 1..Len(twOut') : ~ws[twOut'[i].from].barged]_vars

\* C2: every frame sent to the telephony socket derives from the synthesis
\* transport of the newest SpeechSession, never from an earlier one.
C2_OnlyNewestForwards ==
    \A i \in 1..Len(twOut) : twOut[i].from = twOut[i].newest

\* C3: a handler sends a commit (or a response request) only if, when it runs,
\* at least 6 x 160 buffered bytes are counted.
C3_CommitNeedsThreshold ==
    [][(Types(oaiOut') \cap {COMMIT, CREATE} # {}) => bytesBuffered >= CommitThreshold]_vars

C3_Witness ==
    /\ COMMIT \in Types(oaiOut)
    /\ bytesBuffered = CommitThreshold

\* C4: bytesBuffered goes from a non-zero count to zero only in the handler of
\* input_audio_buffer.committed.
C4_ResetOnlyOnCommitted ==
    [][(bytesBuffered # 0 /\ bytesBuffered' = 0) => OnCommitted]_vars

\* C5: when a commit acknowledgement is handled, the bytes counted after the
\* acknowledged commit was sent stay in the window.
C5_LateAudioPreserved ==
    [][(OnCommitted /\ pendingCommits # <<>>)
          => bytesBuffered' = bytesBuffered - Head(pendingCommits)]_vars

\* C6 (as stated): the silence timer expiring on a window of 10 appended frames,
\* the session ready and its transport open, sends exactly one commit followed
\* by exactly one response request (sends that do not throw).
TenFramesThenSilence(okCommit, okCreate) ==
    /\ timerLive
    /\ bytesBuffered = 10 * FRAME_BYTES
    /\ openaiReady
    /\ oaiState = "OPEN"
    /\ Done(commitAudioBuffer(TimerRuns(Cur, FALSE), okCommit, okCreate))

C6_CommitThenRequest ==
    [][TenFramesThenSilence(TRUE, TRUE) => oaiOut' = <<[type |-> COMMIT], [type |-> CREATE]>>]_vars

\* C6 (amended): in the explicit-trigger variants B and C the expiry sends the
\* commit and then the response request when neither send throws, the commit
\* alone when only the response request throws, nothing when the commit throws;
\* variant A sends the commit and never a response request.
ExpectedTurnMessages(v, okCommit, okCreate) ==
    IF ~okCommit THEN <<>>
    ELSE IF ExplicitTrigger(v) /\ okCreate
    THEN <<[type |-> COMMIT], [type |-> CREATE]>>
    ELSE <<[type |-> COMMIT]>>

C6_TurnMessagesByVariant ==
    [][\A okCommit \in BOOLEAN, okCreate \in BOOLEAN :
          TenFramesThenSilence(okCommit, okCreate)
              => oaiOut' = ExpectedTurnMessages(variant, okCommit, okCreate)]_vars

C6_Witness ==
    /\ ExplicitTrigger(variant)
    /\ bytesBuffered = 10 * FRAME_BYTES
    /\ ~silenceTimer
    /\ oaiOut = <<[type |-> COMMIT], [type |-> CREATE]>>

\* C7: no audio append and no commit is sent to the reasoning backend before
\* session.updated has been handled.
C7_NoAudioBeforeReady ==
    [][(Types(oaiOut') \cap {APPEND, COMMIT} # {}) => openaiReady]_vars

C7_Witness ==
    /\ APPEND \in Types(oaiOut)
    /\ openaiReady
    /\ pendingCommits = <<>>

\* C8: one call of the Frame Slicer on a carry shorter than a frame returns
\* floor((|carry| + |chunk|) / 160) frames of 160 bytes each and a leftover
\* shorter than 160 bytes, which concatenated give back carry followed by chunk.
C8_SingleCall ==
    (slLast.done /\ Len(slLast.carryIn) < FRAME_BYTES) =>
        /\ Len(slLast.frames) = (Len(slLast.carryIn) + Len(slLast.chunkIn)) \div FRAME_BYTES
        /\ \A i \in 1..Len(slLast.frames) : Len(slLast.frames[i]) = FRAME_BYTES
        /\ Len(slLast.leftover) < FRAME_BYTES
        /\ Flatten(slLast.frames) \o slLast.leftover = slLast.carryIn \o slLast.chunkIn

C8_Witness ==
    /\ slLast.done
    /\ slLast.carryIn # <<>>
    /\ Len(slLast.carryIn) + Len(slLast.chunkIn) = 2 * FRAME_BYTES
    /\ Len(slLast.frames) = 2

\* C9: feeding consecutive chunks of a byte sequence, each call carrying the
\* previous leftover, gives the frames and the leftover of one call on the
\* uncut sequence.
C9_SplitInvariance ==
    LET whole == sliceIntoUlaw20msFrames(SubSeq(slData, 1, slPos), <<>>)
    IN /\ slFrames = whole.frames
       /\ slCarry = whole.leftover

C9_Witness ==
    /\ slPos = Len(slData)
    /\ Len(slData) > 2 * FRAME_BYTES
    /\ slLast.done
    /\ slLast.carryIn # <<>>
    /\ slLast.frames # <<>>
    /\ Len(slFrames) = 2

\* C10: once the close handler of the telephony socket has run, no silence
\* timer is pending, the reasoning transport has been asked to close whatever
\* its state was, and no SpeechSession is current, the transport of the one
\* that was current having been asked to close.
C10_CallEndReleases ==
    [][OnTwilioClose =>
          /\ ~silenceTimer'
          /\ oaiState' \in {"CLOSING", "CLOSED"}
          /\ ~ttsPlaying'
          /\ elevenWs' = NullWs
          /\ (elevenWs # NullWs => ws'[elevenWs].rs \in {"CLOSING", "CLOSED"})]_vars

\* C11: a handler opens a synthesis transport or forwards a frame only when,
\* as it ends, the stream identifier is known and the reasoning session is
\* ready.
C11_ReadinessGating ==
    [][(Created(ws') # Created(ws) \/ twOut' # <<>>)
          => (streamSid' # Null /\ openaiReady')]_vars

\* C12: at most one silence timeout is scheduled at any time; once a timeout
\* has run (the commit routine with it) none is scheduled; and one becomes
\* scheduled only while an inbound media event is handled.
LiveTimers == (IF timerLive THEN 1 ELSE 0) + orphanTimers

C12_OneSilenceTimer ==
    [][/\ LiveTimers' <= 1
       /\ (OnSilenceTimer => (LiveTimers' = 0 /\ ~silenceTimer'))
       /\ ((LiveTimers = 0 /\ LiveTimers' > 0) => OnTwilioMedia)]_vars

\* a timeout was pending and the media handler rearmed it
C12_Witness ==
    /\ LiveTimers = 1
    /\ silenceTimer
    /\ bytesBuffered >= 2 * FRAME_BYTES
    /\ APPEND \in Types(oaiOut)

\* C13: an event delivered to one of two concurrent calls leaves the stream
\* identifier, readiness flag, byte count, collecting flag, silence timer,
\* speech session, carry and text buffer of the other call unchanged.
SameCallState(a, b) ==
    /\ a.streamSid = b.streamSid
    /\ a.openaiReady = b.openaiReady
    /\ a.bytesBuffered = b.bytesBuffered
    /\ a.collecting = b.collecting
    /\ a.silenceTimer = b.silenceTimer
    /\ a.timerLive = b.timerLive
    /\ a.elevenWs = b.elevenWs
    /\ a.ttsPlaying = b.ttsPlaying
    /\ a.ws = b.ws
    /\ a.ttsCarry = b.ttsCarry
    /\ a.textBuffer = b.textBuffer

C14_ReasoningLossIsTerminal ==
    [][/\ OnOpenAiClose => (~silenceTimer' /\ LiveTimers' = 0 /\ ~ttsPlaying')
       /\ oaiState = "CLOSED" => Types(oaiOut') \cap {APPEND, COMMIT} = {}]_vars

\* C15: when the silence timer expires on fewer than 6 whole buffered frames,
\* the byte count returns to zero and nothing is sent to the reasoning backend.
C15_SubThresholdDiscard ==
    [][(OnSilenceTimer /\ bytesBuffered \div FRAME_BYTES < MIN_FRAMES_TO_COMMIT)
          => (bytesBuffered' = 0 /\ oaiOut' = <<>>)]_vars

\* C16: a response with non-empty text that completes while an utterance is
\* playing (telephony stream ready) cancels the playing SpeechSession (its
\* transport asked to close) and starts a new one for the new text.
C16_NewSessionReplacesPrior ==
    [][\A output \in ResponseOutputs :
          (/\ HasTTS(variant)
           /\ ttsPlaying
           /\ elevenWs # NullWs
           /\ TwilioReady(Cur)
           /\ Receiving(oaiState)
           /\ openaiReady
           /\ ExtractText(output) # <<>>
           /\ Done(responseDone(Cur, output)))
          => (/\ Newest(ws') > Newest(ws)
              /\ elevenWs' = Newest(ws')
              /\ ws'[elevenWs'].text = ExtractText(output)
              /\ ttsPlaying'
              /\ ws'[elevenWs].rs \in {"CLOSING", "CLOSED"})]_vars

\* C17: a media event handled while a SpeechSession is playing and the
\* reasoning session is ready leaves a window of exactly the byte length of
\* that frame.
BargeInAppends(payload) ==
    /\ HasTTS(variant)
    /\ ttsPlaying
    /\ MayAppend(Cur)
    /\ twState = "OPEN"
    /\ streamSid # Null
    /\ Done(twilioMedia(Cur, payload, TRUE))

C17_BargeInResetsWindow ==
    [][\A payload \in MediaPayloads :
          BargeInAppends(payload) => bytesBuffered' = Base64DecodedLength(payload)]_vars

\* C18: the media frame that barges in, the reasoning session being ready and
\* the send succeeding, is appended to the reasoning backend, counted in the
\* window and rearms the silence timer, with the same result on the window as
\* the same frame handled while no utterance is playing.
C18_BargeInFrameIsAppended ==
    [][\A payload \in MediaPayloads :
          BargeInAppends(payload) =>
              LET quiet == twilioMedia([Cur EXCEPT !.ttsPlaying = FALSE], payload, TRUE)
              IN /\ oaiOut' = <<[type |-> APPEND]>>
                 /\ bytesBuffered' = bytesBuffered + Base64DecodedLength(payload)
                 /\ collecting'
                 /\ silenceTimer'
                 /\ LiveTimers' = 1
                 /\ quiet.oaiOut = oaiOut'
                 /\ quiet.bytesBuffered = bytesBuffered'
                 /\ quiet.silenceTimer = silenceTimer']_vars

\* a frame has just barged in on an utterance whose transport is closing
C18_Witness ==
    /\ \E t \in Transports : ws[t].barged /\ ws[t].rs = "CLOSING"
    /\ ~ttsPlaying
    /\ oaiOut = <<[type |-> APPEND]>>
    /\ bytesBuffered = FRAME_BYTES
    /\ timerLive

\* C19: every termination path of the current SpeechSession (stream-end or
\* error message, close or error of its transport, barge-in) leaves ttsPlaying
\* false, the transport reference released with the transport asked to close,
\* and the carry empty.
TerminationStep ==
    \/ \E type \in {"error", "audio_stream_end"} :
          Receiving(ws[elevenWs].rs) /\ Done(elevenControl(Cur, type))
    \/ ws[elevenWs].rs \in {"CONNECTING", "OPEN", "CLOSING"}
          /\ Done(elevenGone(Cur, elevenWs, "CLOSED"))
    \/ ws[elevenWs].rs \in {"CONNECTING", "OPEN"}
          /\ Done(elevenGone(Cur, elevenWs, "CLOSING"))
    \/ \E payload \in MediaPayloads, ok \in BOOLEAN :
          twState = "OPEN" /\ streamSid # Null /\ Done(twilioMedia(Cur, payload, ok))

C19_TerminationPostState ==
    [][(HasTTS(variant) /\ ttsPlaying /\ elevenWs # NullWs /\ TerminationStep)
          => (/\ ~ttsPlaying'
              /\ elevenWs' = NullWs
              /\ ttsCarry' = <<>>
              /\ ws'[elevenWs].rs \in {"CLOSING", "CLOSED"})]_vars

\* C20: the open event of the current session's synthesis transport (its send
\* not throwing) puts exactly one request, with the text the transport was
\* opened for, on that transport; the open event of any transport puts nothing
\* on another transport and, when the transport is not the current session's,
\* leaves the current session alone.
C20_OwnRequestOnOpen ==
    [][\A t \in Transports :
          (ws[t].rs = "CONNECTING" /\ Done(elevenOpen(Cur, t, TRUE)))
          => (/\ (elevenWs = t => ws'[t].reqs = <<ws[t].text>>)
              /\ \A u \in Transports \ {t} : ws'[u].reqs = ws[u].reqs
              /\ (elevenWs # t =>
                     /\ elevenWs' = elevenWs
                     /\ ttsPlaying' = ttsPlaying
                     /\ ttsCarry' = ttsCarry))]_vars

\* C21: every media event sent to the telephony socket carries a known stream
\* identifier and one frame of 160 bytes, and is sent by the handler of the
\* current SpeechSession's transport while an utterance is playing and the
\* telephony socket is open.
C21_ForwardedFrames ==
    [][\A i \in 1..Len(twOut') :
          /\ twOut'[i].streamSid # Null
          /\ Len(twOut'[i].payload) = FRAME_BYTES
          /\ ttsPlaying
          /\ twState = "OPEN"
          /\ twOut'[i].from = elevenWs]_vars

\* The timeouts the code schedules run: a pending connection timeout, silence
\* timeout, readiness retry or session-update timeout is not postponed forever.
\* The backends and the caller are under no obligation.
TimersRun ==
    /\ WF_vars(OnConnectionTimeout)
    /\ WF_vars(OnSilenceTimer)
    /\ WF_vars(OnRetryTimer)
    /\ WF_vars(SessionUpdateTimer)

FairSpeechSpec == SpeechInit /\ [][Next]_vars /\ TimersRun

\* C22: a call does not stay forever in Speaking on a synthesis transport that
\* neither opens nor fails: the transport of the current SpeechSession does not
\* remain connecting for ever.
OpeningStuck ==
    /\ ttsPlaying
    /\ elevenWs # NullWs
    /\ ws[elevenWs].rs = "CONNECTING"

C22_OpeningIsBounded == []<>(~OpeningStuck)

\* C23: a retry of speakWithEleven that finds the stream identifier unknown or
\* the telephony socket not open opens no synthesis transport and reschedules
\* itself once, with the same text and the next attempt number, unless it is the
\* 20th retry, after which nothing is scheduled; a retry that finds both
\* conditions true schedules nothing and, no utterance playing, opens the
\* transport for its text. No pending retry has an attempt number above 20.
SpeakRetryFires ==
    /\ retryQ # <<>>
    /\ Head(retryQ).kind = "speak"
    /\ OnRetryTimer

C23_SpeakRetryTerminates ==
    [][/\ \A i \in 1..Len(retryQ') :
              retryQ'[i].kind = "speak" => retryQ'[i].attempt \in 1..SPEAK_MAX_ATTEMPTS
       /\ SpeakRetryFires =>
              LET r == Head(retryQ)
              IN IF ~TwilioReady(Cur)
                 THEN /\ Created(ws') = Created(ws)
                      /\ ttsPlaying' = ttsPlaying
                      /\ retryQ' = IF r.attempt < SPEAK_MAX_ATTEMPTS
                                   THEN Tail(retryQ) \o <<[r EXCEPT !.attempt = @ + 1]>>
                                   ELSE Tail(retryQ)
                 ELSE /\ retryQ' = Tail(retryQ)
                      /\ ~ttsPlaying =>
                             /\ Created(ws') # Created(ws)
                             /\ ws'[elevenWs'].text = r.text
                             /\ ttsPlaying']_vars

\* the 20th retry of an utterance is pending on a call whose stream identifier
\* is still unknown
C23_Witness ==
    /\ retryQ # <<>>
    /\ Head(retryQ).kind = "speak"
    /\ Head(retryQ).attempt = SPEAK_MAX_ATTEMPTS
    /\ streamSid = Null
    /\ Created(ws) = {}

\* C24: a retry of tryWelcome that finds the reasoning session not ready, the
\* stream identifier unknown or the telephony socket not open speaks nothing
\* and reschedules itself once with the next attempt number, unless it is the
\* last retry (the 40th in variant B, the 20th in variant C), after which
\* nothing is scheduled; a retry that finds all three true schedules nothing
\* and, no utterance playing, starts the welcome utterance. No pending welcome
\* retry has an attempt number above that limit.
WelcomeRetryFires ==
    /\ retryQ # <<>>
    /\ Head(retryQ).kind = "welcome"
    /\ OnRetryTimer

C24_WelcomePollTerminates ==
    [][/\ \A i \in 1..Len(retryQ') :
              retryQ'[i].kind = "welcome"
                  => retryQ'[i].attempt \in 1..(IF variant = "B" THEN 40 ELSE 20)
       /\ WelcomeRetryFires =>
              LET r == Head(retryQ)
              IN IF ~(openaiReady /\ streamSid # Null /\ twState = "OPEN")
                 THEN /\ Created(ws') = Created(ws)
                      /\ ttsPlaying' = ttsPlaying
                      /\ retryQ' = IF r.attempt < (IF variant = "B" THEN 40 ELSE 20)
                                   THEN Tail(retryQ) \o <<[r EXCEPT !.attempt = @ + 1]>>
                                   ELSE Tail(retryQ)
                 ELSE /\ retryQ' = Tail(retryQ)
                      /\ ~ttsPlaying =>
                             /\ Created(ws') # Created(ws)
                             /\ ws'[elevenWs'].text = WelcomeText
                             /\ ttsPlaying']_vars

\* the 40th retry of variant B's welcome poll is pending, the stream identifier
\* known and the reasoning session still not ready
C24_Witness ==
    /\ variant = "B"
    /\ retryQ # <<>>
    /\ Head(retryQ).kind = "welcome"
    /\ Head(retryQ).attempt = WELCOME_MAX_ATTEMPTS_B
    /\ streamSid # Null
    /\ ~openaiReady
    /\ Created(ws) = {}

\* C25: a completion event that carries no output_text part other than blank
\* ones, handled while no text delta is buffered, opens no synthesis
\* transport, schedules no utterance and leaves the playing flag and the
\* current transport as they were.
Blank(text) == \A i \in 1..Len(text) : text[i] = SP

NoTextIn(output) ==
    \A i \in 1..Len(output) : output[i].type = "output_text" => Blank(output[i].text)

C25_EmptyResponseStartsNothing ==
    [][\A output \in ResponseOutputs :
          (/\ HasTTS(variant)
           /\ Receiving(oaiState)
           /\ openaiReady
           /\ NoTextIn(output)
           /\ textBuffer = <<>>
           /\ Done(responseDone(Cur, output)))
          => (/\ ws' = ws
              /\ elevenWs' = elevenWs
              /\ ttsPlaying' = ttsPlaying
              /\ retryQ' = retryQ)]_vars

\* a listening call, ready on both sides, nothing buffered and nothing playing
\* after an utterance ended: the empty completion leaves it as it is
C25_Witness ==
    /\ HasTTS(variant)
    /\ openaiReady
    /\ oaiState = "OPEN"
    /\ streamSid # Null
    /\ twState = "OPEN"
    /\ textBuffer = <<>>
    /\ ~ttsPlaying
    /\ elevenWs = NullWs
    /\ \E t \in Transports : ws[t].rs = "CLOSED"
    /\ retryQ = <<>>
    /\ oaiOut = <<>>
    /\ twOut = <<>>

\* C26 (as stated): in the explicit-trigger variants the text handed to the
\* synthesis side for a completed response is the trimmed join of the
\* output_text parts of the event or, when that is empty, the concatenation in
\* arrival order of the deltas buffered since the previous completion; and the
\* delta buffer is empty after the completion.
CompletionHandled(output) ==
    /\ ExplicitTrigger(variant)
    /\ Receiving(oaiState)
    /\ openaiReady
    /\ Done(responseDone(Cur, output))

\* the handler was given text `expected` to speak: it opened a transport for
\* it, or scheduled a readiness retry for it, or dropped it on an utterance
\* that is playing
SpokenIs(expected) ==
    IF ~TwilioReady(Cur)
    THEN /\ ws' = ws
         /\ retryQ' = Append(retryQ, [kind |-> "speak", text |-> expected, attempt |-> 1])
    ELSE IF ttsPlaying
    THEN ws' = ws /\ retryQ' = retryQ
    ELSE /\ Created(ws') # Created(ws)
         /\ ws'[elevenWs'].text = expected
         /\ retryQ' = retryQ

C26_TextAssembly ==
    [][\A output \in ResponseOutputs :
          CompletionHandled(output) =>
              LET expected == IF ExtractText(output) # <<>> THEN ExtractText(output)
                              ELSE textBuffer
              IN /\ textBuffer' = <<>>
                 /\ IF expected # <<>> THEN SpokenIs(expected)
                    ELSE ws' = ws /\ retryQ' = retryQ]_vars

\* C26 (amended): the text handed to the synthesis side is the trimmed join of
\* the output_text parts or, when that is empty, the concatenation of the
\* buffered deltas with its leading and trailing white space removed; when
\* that too is empty nothing is spoken; the delta buffer is empty after the
\* completion.
C26_TextAssemblyTrimmed ==
    [][\A output \in ResponseOutputs :
          CompletionHandled(output) =>
              LET expected == IF ExtractText(output) # <<>> THEN ExtractText(output)
                              ELSE Trim(textBuffer)
              IN /\ textBuffer' = <<>>
                 /\ IF expected # <<>> THEN SpokenIs(expected)
                    ELSE ws' = ws /\ retryQ' = retryQ]_vars

\* an utterance made of two deltas is playing and the delta buffer is empty
C26_Witness ==
    /\ ExplicitTrigger(variant)
    /\ ttsPlaying
    /\ elevenWs # NullWs
    /\ ws[elevenWs].text = <<"a", "a">>
    /\ textBuffer = <<>>

\* C27 (as stated): in the variants with a silence timer, every media event
\* handled while the reasoning session is ready cancels the pending timeout and
\* sets a new one; the commit routine runs only when a full silence duration
\* has passed since the last inbound media event; the commit routine and the
\* close of the telephony socket leave no timeout pending.
MediaWhileReady(payload, ok) ==
    /\ HasTTS(variant)
    /\ twState = "OPEN"
    /\ streamSid # Null
    /\ MayAppend(Cur)
    /\ Done(twilioMedia(Cur, payload, ok))

Rearmed ==
    /\ silenceTimer'
    /\ timerLive'
    /\ sinceArm' = 0
    /\ LiveTimers' = 1

C28_UnreadyMediaIsDropped ==
    [][\A payload \in MediaPayloads, ok \in BOOLEAN :
          (/\ twState = "OPEN"
           /\ streamSid # Null
           /\ ~(oaiState = "OPEN" /\ openaiReady)
           /\ Done(twilioMedia(Cur, payload, ok)))
          => (/\ oaiOut' = <<>>
              /\ bytesBuffered' = bytesBuffered
              /\ collecting' = collecting
              /\ silenceTimer' = silenceTimer
              /\ timerLive' = timerLive
              /\ orphanTimers' = orphanTimers
              /\ sinceArm' = sinceArm)]_vars

\* a media event has been handled, a clock tick after the reasoning transport
\* opened, by a call whose session is not ready yet
C28_Witness ==
    /\ ~openaiReady
    /\ oaiState = "OPEN"
    /\ streamSid # Null
    /\ sinceFrame = 0
    /\ sinceArm = 1
    /\ bytesBuffered = 0
    /\ ~collecting
    /\ ~silenceTimer
    /\ oaiOut = <<>>

\* C29: a malformed telephony event (unparseable, the JSON value null, an
\* unknown event kind, a start event without a start object, a media event
\* without a media object or without a payload) leaves no exception uncaught,
\* sends nothing, and leaves the stream identifier, the window, the silence
\* timer, the speech session and the carry as they were.
C29_MalformedTelephonyEventDropped ==
    [][\A kind \in TwilioMalformed, ok \in BOOLEAN :
          (twState = "OPEN" /\ Done(twilioMalformed(Cur, kind, ok)))
          => (/\ ~uncaught'
              /\ oaiOut' = <<>>
              /\ twOut' = <<>>
              /\ streamSid' = streamSid
              /\ bytesBuffered' = bytesBuffered
              /\ collecting' = collecting
              /\ silenceTimer' = silenceTimer
              /\ timerLive' = timerLive
              /\ ttsPlaying' = ttsPlaying
              /\ elevenWs' = elevenWs
              /\ ws' = ws
              /\ ttsCarry' = ttsCarry)]_vars

\* C30: an unparseable or unexpected message on the reasoning transport
\* (invalid JSON, the JSON value null, an unknown event type) leaves no
\* exception uncaught and leaves the state of the call as it was, so that the
\* next reasoning message is handled.
C30_MalformedReasoningMessageIgnored ==
    [][\A kind \in OpenAiMalformed :
          (Receiving(oaiState) /\ Done(openAiMalformed(Cur, kind)))
          => (/\ ~uncaught'
              /\ UNCHANGED <<streamSid, openaiReady, bytesBuffered, collecting,
                             silenceTimer, timerLive, ttsPlaying, elevenWs, ws,
                             ttsCarry, textBuffer, retryQ, pendingCommits>>)]_vars

\* C31: the welcome utterance is started at most once per call: at most one
\* synthesis transport is ever created for the welcome text, whatever the order
\* of session.updated and the start event and whatever happens while a welcome
\* poll is pending.
WelcomeStarts == {t \in Created(ws) : ws[t].text = WelcomeText}

C31_WelcomeAtMostOnce == Cardinality(WelcomeStarts) <= 1

\* C32: a terminal event of a superseded synthesis transport (its close, its
\* error, a stream-end or error message on it), handled while a newer
\* SpeechSession is current, leaves that session current, its transport in the
\* state it was in and the carry untouched.
SupersededTerminal(t) ==
    \/ ws[t].rs \in {"CONNECTING", "OPEN", "CLOSING"}
          /\ Done(elevenGone(Cur, t, "CLOSED"))
    \/ ws[t].rs \in {"CONNECTING", "OPEN"}
          /\ Done(elevenGone(Cur, t, "CLOSING"))
    \/ \E type \in {"error", "audio_stream_end"} :
          Receiving(ws[t].rs) /\ Done(elevenControl(Cur, type))

C32_SupersededEventIsInert ==
    [][\A t \in Transports :
          (/\ HasTTS(variant)
           /\ ttsPlaying
           /\ elevenWs # NullWs
           /\ t < elevenWs
           /\ SupersededTerminal(t))
          => (/\ ttsPlaying'
              /\ elevenWs' = elevenWs
              /\ ws'[elevenWs].rs = ws[elevenWs].rs
              /\ ttsCarry' = ttsCarry)]_vars

\* C33: in the variants with a silence timer no commit is sent while a commit
\* sent earlier has not been acknowledged by input_audio_buffer.committed.
C33_OneCommitInFlight ==
    [][(HasTTS(variant) /\ COMMIT \in Types(oaiOut')) => pendingCommits = <<>>]_vars

\* C34: a handler that cancels the current SpeechSession on a barge-in or at
\* call end leaves that session's synthesis transport closing or closed,
\* whether it was open or still connecting; and when the close handler of the
\* telephony socket has run, every synthesis transport created during the call
\* is closing or closed.
CancelStep ==
    \/ OnTwilioClose
    \/ \E payload \in MediaPayloads, ok \in BOOLEAN :
          twState = "OPEN" /\ streamSid # Null /\ Done(twilioMedia(Cur, payload, ok))

TornDown(w, t) == w[t].rs \in {"CLOSING", "CLOSED"}

C34_CancelTearsDown ==
    [][/\ (HasTTS(variant) /\ ttsPlaying /\ elevenWs # NullWs /\ CancelStep)
              => TornDown(ws', elevenWs)
       /\ (HasTTS(variant) /\ OnTwilioClose)
              => \A t \in Created(ws') : TornDown(ws', t)]_vars

\* C35: once the telephony socket of a call with speech synthesis has closed,
\* no handler creates a synthesis transport, makes a SpeechSession current,
\* schedules a silence timeout, forwards a frame or sends an append or a commit.
C35_CallEndIsTerminal ==
    [][(HasTTS(variant) /\ twState = "CLOSED")
          => (/\ Created(ws') = Created(ws)
              /\ ~ttsPlaying'
              /\ elevenWs' = NullWs
              /\ LiveTimers' = 0
              /\ ~silenceTimer'
              /\ twOut' = <<>>
              /\ Types(oaiOut') \cap {APPEND, COMMIT} = {})]_vars

\* C36: in every state the carry is shorter than a frame, is empty when no
\* SpeechSession is current, and holds only bytes delivered by the current
\* session's synthesis transport.
C36_CarryBelongsToSession ==
    /\ Len(ttsCarry) < FRAME_BYTES
    /\ (~ttsPlaying \/ elevenWs = NullWs) => ttsCarry = <<>>
    /\ \A i \in 1..Len(ttsCarry) : ttsCarry[i] = elevenWs

\* C37: a media frame handled while the reasoning session is ready adds its
\* decoded length to the byte count exactly when its append is sent; a frame
\* whose send throws sends nothing, is not counted and leaves the silence timer
\* as it was. In every variant.
MediaHandled(payload, ok) ==
    /\ twState = "OPEN"
    /\ streamSid # Null
    /\ MayAppend(Cur)
    /\ Done(twilioMedia(Cur, payload, ok))

C37_CountMatchesAppends ==
    [][\A payload \in MediaPayloads :
          /\ MediaHandled(payload, TRUE) =>
                 /\ oaiOut' = <<[type |-> APPEND]>>
                 /\ bytesBuffered' = bytesBuffered + Base64DecodedLength(payload)
          /\ MediaHandled(payload, FALSE) =>
                 /\ oaiOut' = <<>>
                 /\ bytesBuffered' = bytesBuffered
                 /\ silenceTimer' = silenceTimer
                 /\ timerLive' = timerLive]_vars

\* C38: the telephony stop event changes no state of the call: the stream
\* identifier, the readiness flag, the window, the silence timer and its
\* pending timeout, the SpeechSession, its transports and the carry are as
\* before, so that a timeout pending at stop still runs and an utterance
\* playing at stop keeps forwarding.
C38_StopChangesNothing ==
    [][OnTwilioStop =>
          /\ UNCHANGED <<streamSid, openaiReady, bytesBuffered, collecting,
                         silenceTimer, timerLive, orphanTimers, elevenWs,
                         ttsPlaying, ttsCarry, ws, twState, oaiState>>
          /\ oaiOut' = <<>>
          /\ twOut' = <<>>]_vars

\* the stop event can be handled while a timeout is pending on a window that
\* reaches the commit threshold and an utterance is playing
C38_Witness ==
    /\ twState = "OPEN"
    /\ streamSid # Null
    /\ timerLive
    /\ bytesBuffered >= CommitThreshold
    /\ ttsPlaying
    /\ elevenWs # NullWs
    /\ oaiOut = <<>>
    /\ twOut = <<>>

\* C39: in the explicit-trigger variants, the commit routine run by the silence
\* timeout while the reasoning session is not ready or its transport is not
\* open sends nothing and leaves the byte count and the collecting flag as
\* they were, whatever the count; it leaves no silence timeout pending and
\* changes nothing else.
CommitRoutineRuns(okCommit, okCreate) ==
    /\ ExplicitTrigger(variant)
    /\ timerLive
    /\ Done(commitAudioBuffer(TimerRuns(Cur, FALSE), okCommit, okCreate))

C39_UnreadyCommitIsNoOp ==
    [][\A okCommit \in BOOLEAN, okCreate \in BOOLEAN :
          (CommitRoutineRuns(okCommit, okCreate) /\ (oaiState # "OPEN" \/ ~openaiReady))
          => (/\ oaiOut' = <<>>
              /\ bytesBuffered' = bytesBuffered
              /\ collecting' = collecting
              /\ ~silenceTimer'
              /\ LiveTimers' = 0
              /\ UNCHANGED <<streamSid, openaiReady, elevenWs, ttsPlaying, ttsCarry,
                             ws, textBuffer, retryQ, pendingCommits, oaiState,
                             twState>>)]_vars

\* the timeout has run on a window of at least six frames after the reasoning
\* transport closed: the window is still counted and nothing was sent
C39_Witness ==
    /\ ExplicitTrigger(variant)
    /\ oaiState = "CLOSED"
    /\ twState = "OPEN"
    /\ bytesBuffered >= CommitThreshold
    /\ collecting
    /\ ~silenceTimer
    /\ ~timerLive
    /\ pendingCommits = <<>>
    /\ oaiOut = <<>>

\* C40: in every state of a variant with speech synthesis the playing flag is
\* set exactly when the transport reference is not null.
C40_PlayingIffTransport ==
    HasTTS(variant) => (ttsPlaying <=> elevenWs # NullWs)

\* a second utterance is playing after a barge-in canceled the first
C40_Witness ==
    /\ HasTTS(variant)
    /\ ttsPlaying
    /\ elevenWs = 2
    /\ ws[1].barged
    /\ ws[2].rs = "OPEN"

====
